---- MODULE Spec2Model ----
(***************************************************************************)
(* Model of geojson_processing/filtering.py: get_valid_shapes,             *)
(* filter_by_area and clean_manually_annotated_parcels.                    *)
(*                                                                         *)
(* Each behaviour is one call of one of the three functions (op), executed *)
(* statement by statement (pc).  For get_valid_shapes a behaviour may go   *)
(* on with a second call on the list the first call returned.              *)
(*                                                                         *)
(* A geometry is modelled by what the geometry library answers about it:   *)
(* whether it can be built, whether it is valid, its area.  A data frame   *)
(* is a set of column names and a sequence of rows, each row carrying its  *)
(* index label and its cells.  Strings are sequences of one-character      *)
(* strings.                                                                *)
(***************************************************************************)
EXTENDS Integers, Sequences, FiniteSets, TLC

\* Largest number of features in the list given to get_valid_shapes.
MaxFeatures == 3
\* Largest number of rows of a frame given to clean_manually_annotated_parcels.
MaxRows == 2
\* Largest number of rows of a frame given to filter_by_area.
MaxAreaRows == 3
\* Largest area of a geometry.
MaxArea == 2

VARIABLES
    op,                 \* the function that is called
    pc,                 \* position in its body; "done" = returned, "raised" = left by an exception
    run,                \* get_valid_shapes: 1 = first call, 2 = call on the first call's result
    features,           \* get_valid_shapes: the caller's list, parameter features
    features_passed,    \* the list as it was when the call started
    verbose,            \* get_valid_shapes: parameter verbose
    idx,                \* get_valid_shapes: position of the for loop in features
    valid_features,     \* get_valid_shapes: local valid_features
    invalid_count,      \* get_valid_shapes: local invalid_count
    stdout,             \* what the call has printed
    first_result,       \* what the first call of get_valid_shapes returned
    caller_frame,       \* the data frame object the caller passed
    frame_passed,       \* that data frame as it was when the call started
    geodataframe,       \* filter_by_area: what the name geodataframe is bound to
    min_area,           \* filter_by_area: parameter min_area
    max_area,           \* filter_by_area: parameter max_area
    geodataframe_annotated, \* clean_manually_annotated_parcels: what that name is bound to
    result              \* what the call returned

vars == <<op, pc, run, features, features_passed, verbose, idx, valid_features,
          invalid_count, stdout, first_result, caller_frame, frame_passed,
          geodataframe, min_area, max_area, geodataframe_annotated, result>>

validVars == <<run, features, features_passed, verbose, idx, valid_features,
               invalid_count, first_result>>
areaVars == <<geodataframe, min_area, max_area>>
frameVars == <<caller_frame, frame_passed>>

\* Value of a variable the called function does not have.
Unused == <<>>

----------------------------------------------------------------------------
(* Sequences *)

RECURSIVE SeqsUpTo(_, _)
SeqsUpTo(S, n) ==
    IF n = 0 THEN {<<>>}
    ELSE LET shorter == SeqsUpTo(S, n - 1)
         IN  shorter \cup {Append(s, x) : s \in {t \in shorter : Len(t) = n - 1}, x \in S}

\* Number of positions of s whose element satisfies Test.
Count(s, Test(_)) == Cardinality({i \in 1..Len(s) : Test(s[i])})

----------------------------------------------------------------------------
(* get_valid_shapes *)

\* The geometry fields a feature can carry: a well-formed polygon, a
\* self-intersecting polygon, a geometry of a type the library does not know,
\* and a geometry description with no coordinates.
Geometries == {"polygon", "bowtie", "unknown_type", "no_coordinates"}

\* shape(feature['geometry']): the exception it raises ("none" when it
\* returns) and the is_valid of the object it returns.
shape(geometry) ==
    CASE geometry = "polygon"        -> [raises |-> "none", is_valid |-> TRUE]
      [] geometry = "bowtie"         -> [raises |-> "none", is_valid |-> FALSE]
      [] geometry = "unknown_type"   -> [raises |-> "ValueError", is_valid |-> FALSE]
      [] geometry = "no_coordinates" -> [raises |-> "KeyError", is_valid |-> FALSE]

Features == [properties : {"a", "b"}, geometry : Geometries]

\* Faulty variant of InvalidCountStart: the count starts at one.
InvalidCountStartOne == 0 + 1
\* invalid_count = 0
InvalidCountStart == 0

\* The state when the for loop is reached, for the call get_valid_shapes(F, v).
EnterGetValidShapes(F, v) ==
    /\ features = F
    /\ features_passed = F
    /\ verbose = v
    /\ idx = 1
    /\ valid_features = <<>>
    /\ invalid_count = InvalidCountStart

InitGetValidShapes ==
    /\ op = "get_valid_shapes"
    /\ pc = "loop"
    /\ run = 1
    /\ \E F \in SeqsUpTo(Features, MaxFeatures), v \in BOOLEAN : EnterGetValidShapes(F, v)
    /\ stdout = <<>>
    /\ first_result = Unused /\ result = Unused
    /\ caller_frame = Unused /\ frame_passed = Unused
    /\ geodataframe = Unused /\ min_area = Unused /\ max_area = Unused
    /\ geodataframe_annotated = Unused

InLoop ==
    /\ op = "get_valid_shapes"
    /\ pc = "loop"
    /\ idx <= Len(features)

\* What the two print calls of a verbose branch write.
Diagnostic(msg, counter, feature) ==
    IF verbose
    THEN stdout \o <<[line |-> msg, n |-> counter], [line |-> "feature", feature |-> feature]>>
    ELSE stdout

\* Faulty variant of IterValid: the feature is put in front of the list.
IterValidPrepend ==
    /\ InLoop
    /\ shape(features[idx].geometry).raises = "none"
    /\ shape(features[idx].geometry).is_valid
    /\ valid_features' = <<features[idx]>> \o valid_features
    /\ idx' = idx + 1
    /\ UNCHANGED <<op, pc, run, features, features_passed, verbose, invalid_count,
                   stdout, first_result, result, frameVars, areaVars, geodataframe_annotated>>

\* One pass of the loop body: the shape is built and is valid.
IterValid ==
    /\ InLoop
    /\ shape(features[idx].geometry).raises = "none"
    /\ shape(features[idx].geometry).is_valid
    /\ valid_features' = Append(valid_features, features[idx])
    /\ idx' = idx + 1
    /\ UNCHANGED <<op, pc, run, features, features_passed, verbose, invalid_count,
                   stdout, first_result, result, frameVars, areaVars, geodataframe_annotated>>

\* One pass of the loop body: the shape is built and is not valid.
IterInvalid ==
    /\ InLoop
    /\ shape(features[idx].geometry).raises = "none"
    /\ ~shape(features[idx].geometry).is_valid
    /\ invalid_count' = invalid_count + 1
    /\ stdout' = Diagnostic("Shape is not valid", invalid_count', features[idx])
    /\ idx' = idx + 1
    /\ UNCHANGED <<op, pc, run, features, features_passed, verbose, valid_features,
                   first_result, result, frameVars, areaVars, geodataframe_annotated>>

\* Faulty variant of IterValueError: the except branch does not count.
IterValueErrorNotCounted ==
    /\ InLoop
    /\ shape(features[idx].geometry).raises = "ValueError"
    /\ stdout' = Diagnostic("Geojson shape is not readable", invalid_count, features[idx])
    /\ idx' = idx + 1
    /\ UNCHANGED <<op, pc, run, features, features_passed, verbose, valid_features,
                   invalid_count, first_result, result, frameVars, areaVars,
                   geodataframe_annotated>>

\* One pass of the loop body: shape raises ValueError, which is caught.
IterValueError ==
    /\ InLoop
    /\ shape(features[idx].geometry).raises = "ValueError"
    /\ invalid_count' = invalid_count + 1
    /\ stdout' = Diagnostic("Geojson shape is not readable", invalid_count', features[idx])
    /\ idx' = idx + 1
    /\ UNCHANGED <<op, pc, run, features, features_passed, verbose, valid_features,
                   first_result, result, frameVars, areaVars, geodataframe_annotated>>

\* One pass of the loop body: the try block raises an exception that is not
\* a ValueError; no except clause matches and it leaves the function.
IterUncaught ==
    /\ InLoop
    /\ shape(features[idx].geometry).raises \notin {"none", "ValueError"}
    /\ pc' = "raised"
    /\ UNCHANGED <<op, run, features, features_passed, verbose, idx, valid_features,
                   invalid_count, stdout, first_result, result, frameVars, areaVars,
                   geodataframe_annotated>>

\* Faulty variant of Finish: the list given is returned.
FinishReturnsInput ==
    /\ op = "get_valid_shapes"
    /\ pc = "loop"
    /\ idx > Len(features)
    /\ stdout' = Append(stdout, [line |-> "Found invalid shapes", n |-> invalid_count])
    /\ result' = features
    /\ pc' = "done"
    /\ UNCHANGED <<op, validVars, frameVars, areaVars, geodataframe_annotated>>

\* The loop is over: print the count and return valid_features.
Finish ==
    /\ op = "get_valid_shapes"
    /\ pc = "loop"
    /\ idx > Len(features)
    /\ stdout' = Append(stdout, [line |-> "Found invalid shapes", n |-> invalid_count])
    /\ result' = valid_features
    /\ pc' = "done"
    /\ UNCHANGED <<op, validVars, frameVars, areaVars, geodataframe_annotated>>

\* The caller passes the returned list to a second call, with the same verbose.
Rerun ==
    /\ op = "get_valid_shapes"
    /\ pc = "done"
    /\ run = 1
    /\ run' = 2
    /\ first_result' = result
    /\ features' = result
    /\ features_passed' = result
    /\ idx' = 1
    /\ valid_features' = <<>>
    /\ invalid_count' = InvalidCountStart
    /\ pc' = "loop"
    /\ UNCHANGED <<op, verbose, stdout, result, frameVars, areaVars, geodataframe_annotated>>

\* The count the call reported: the one in the line it printed last.
ReportedCount == stdout[Len(stdout)].n

----------------------------------------------------------------------------
(* Data frames *)

\* Row labels.  Labels of a frame need not differ (a frame made by
\* concatenating two frames keeps the labels of both).
RangeIndex(n) == [i \in 1..n |-> i - 1]
SameLabelIndex(n) == [i \in 1..n |-> 0]

\* The frame with columns cols whose i-th row has label index[i] and cells cells[i].
Frame(cols, index, cells) ==
    [columns |-> cols,
     rows |-> [i \in 1..Len(cells) |-> [index |-> index[i], cells |-> cells[i]]]]

\* frame[column], frame.column: the cells of a column, row by row.
Column(frame, column) == [i \in 1..Len(frame.rows) |-> frame.rows[i].cells[column]]

\* frame[column] = values: the column is added, or overwritten if it is there.
SetColumn(frame, column, values) ==
    [columns |-> frame.columns \cup {column},
     rows |-> [i \in 1..Len(frame.rows) |->
                 [index |-> frame.rows[i].index,
                  cells |-> [c \in frame.columns \cup {column} |->
                               IF c = column THEN values[i]
                               ELSE frame.rows[i].cells[c]]]]]

RECURSIVE Masked(_, _)
\* The elements of rows at the positions where mask is true, in order.
Masked(rows, mask) ==
    IF rows = <<>> THEN <<>>
    ELSE (IF Head(mask) THEN <<Head(rows)>> ELSE <<>>) \o Masked(Tail(rows), Tail(mask))

\* frame[mask], mask a boolean series: the rows where mask is true, in order.
Select(frame, mask) ==
    [columns |-> frame.columns, rows |-> Masked(frame.rows, mask)]

----------------------------------------------------------------------------
(* filter_by_area *)

\* Area bounds: a number or np.inf.
Finite(v) == [inf |-> FALSE, v |-> v]
Infinity == [inf |-> TRUE, v |-> 0]

\* Faulty variant of GreaterThan: >= for >.
GreaterOrEqual(a, bound) == ~bound.inf /\ a >= bound.v
\* geodataframe.area > min_area
GreaterThan(a, bound) == ~bound.inf /\ a > bound.v

\* geodataframe.area < max_area
LessThan(a, bound) == bound.inf \/ a < bound.v

\* Frames given to filter_by_area: a geometry column (each geometry known by
\* its area), possibly an area column already there, or no geometry column.
AreaCells(cols, a) == [c \in cols |-> IF c = "geometry" THEN [area |-> a] ELSE 0]
AreaFrames ==
    {Frame(cols, RangeIndex(Len(as)), [i \in 1..Len(as) |-> AreaCells(cols, as[i])]) :
        cols \in {{"geometry"}, {"geometry", "area"}, {"name"}},
        as \in SeqsUpTo(0..MaxArea, MaxAreaRows)}

InitFilterByArea ==
    /\ op = "filter_by_area"
    /\ pc = "assign_area"
    /\ caller_frame \in AreaFrames
    /\ frame_passed = caller_frame
    /\ geodataframe = caller_frame
    /\ min_area \in {Finite(v) : v \in -1..MaxArea}
    /\ max_area \in {Finite(v) : v \in 0..(MaxArea + 1)} \cup {Infinity}
    /\ result = Unused
    /\ stdout = <<>>
    /\ run = Unused /\ features = Unused /\ features_passed = Unused
    /\ verbose = Unused /\ idx = Unused /\ valid_features = Unused
    /\ invalid_count = Unused /\ first_result = Unused
    /\ geodataframe_annotated = Unused

\* geodataframe.geometry on a frame with no geometry column raises.
NoGeometryColumn ==
    /\ op = "filter_by_area"
    /\ pc = "assign_area"
    /\ "geometry" \notin geodataframe.columns
    /\ pc' = "raised"
    /\ UNCHANGED <<op, validVars, stdout, result, frameVars, areaVars, geodataframe_annotated>>

\* geodataframe['area'] = geodataframe.geometry.apply(lambda s: s.area)
\* geodataframe is still the object the caller passed.
AssignArea ==
    /\ op = "filter_by_area"
    /\ pc = "assign_area"
    /\ "geometry" \in geodataframe.columns
    /\ caller_frame' = SetColumn(caller_frame, "area",
                                 [i \in 1..Len(caller_frame.rows) |->
                                    Column(caller_frame, "geometry")[i].area])
    /\ geodataframe' = caller_frame'
    /\ pc' = "remove_small"
    /\ UNCHANGED <<op, validVars, stdout, frame_passed, result, min_area, max_area,
                   geodataframe_annotated>>

\* geodataframe = geodataframe[geodataframe.area > min_area]
RemoveSmall ==
    /\ op = "filter_by_area"
    /\ pc = "remove_small"
    /\ geodataframe' = Select(geodataframe,
                              [i \in 1..Len(geodataframe.rows) |->
                                 GreaterThan(Column(geodataframe, "area")[i], min_area)])
    /\ pc' = "remove_big"
    /\ UNCHANGED <<op, validVars, stdout, result, frameVars, min_area, max_area,
                   geodataframe_annotated>>

\* geodataframe = geodataframe[geodataframe.area < max_area]; return geodataframe
RemoveBig ==
    /\ op = "filter_by_area"
    /\ pc = "remove_big"
    /\ geodataframe' = Select(geodataframe,
                              [i \in 1..Len(geodataframe.rows) |->
                                 LessThan(Column(geodataframe, "area")[i], max_area)])
    /\ result' = geodataframe'
    /\ pc' = "done"
    /\ UNCHANGED <<op, validVars, stdout, caller_frame, frame_passed, min_area, max_area,
                   geodataframe_annotated>>

----------------------------------------------------------------------------
(* Identifiers and their string form *)

DigitChars == <<"0", "1", "2", "3", "4", "5", "6", "7", "8", "9">>

RECURSIVE NatStr(_)
\* str(n) of an int n >= 0
NatStr(n) ==
    IF n < 10 THEN <<DigitChars[n + 1]>>
    ELSE NatStr(n \div 10) \o <<DigitChars[(n % 10) + 1]>>

\* str(n) of an int
IntStr(n) == IF n < 0 THEN <<"-">> \o NatStr(-n) ELSE NatStr(n)

\* A float is known by its number of tenths: 12.5 is 125 tenths.
Abs(n) == IF n < 0 THEN -n ELSE n

\* str(x) of a float x, e.g. "12.0", "12.5", "-3.5"
FloatStr(tenths) ==
    (IF tenths < 0 THEN <<"-">> ELSE <<>>)
        \o NatStr(Abs(tenths) \div 10) \o <<".">> \o <<DigitChars[(Abs(tenths) % 10) + 1]>>

\* int(x) of a float x: the fractional part is cut off, towards zero.
IntOfFloat(tenths) == IF tenths < 0 THEN -(Abs(tenths) \div 10) ELSE tenths \div 10

\* The values an identifier cell can hold.
PyFloat(tenths) == [type |-> "float", tenths |-> tenths]
NaN == [type |-> "float", nan |-> TRUE]
None == [type |-> "NoneType"]
PyInt(n) == [type |-> "int", n |-> n]
PyStr(chars) == [type |-> "str", chars |-> chars]

\* isinstance(unit, float)
IsFloat(unit) == unit.type = "float"
IsNaN(unit) == unit.type = "float" /\ "nan" \in DOMAIN unit
\* pd.isnull(unit)
IsNull(unit) == IsNaN(unit) \/ unit.type = "NoneType"

\* str(t)
StrOf(t) ==
    CASE t.type = "str" -> t.chars
      [] t.type = "int" -> IntStr(t.n)
      [] t.type = "NoneType" -> <<"N", "o", "n", "e">>
      [] IsNaN(t) -> <<"n", "a", "n">>
      [] OTHER -> FloatStr(t.tenths)

IsDigit(char) == \E i \in 1..Len(DigitChars) : DigitChars[i] = char

\* re.sub(r"\D", "", chars)
RemoveNonDigits(chars) == SelectSeq(chars, IsDigit)

\* Faulty variant of Float2Int: only floats of integral value are converted.
Float2IntIntegralOnly(unit) ==
    IF IsFloat(unit) /\ ~IsNull(unit) /\ unit.tenths % 10 = 0
    THEN PyInt(IntOfFloat(unit.tenths))
    ELSE unit
\* Faulty variant of Float2Int: the float is rounded down, not cut.
Float2IntRoundsDown(unit) ==
    IF IsFloat(unit) /\ ~IsNull(unit) THEN PyInt(unit.tenths \div 10) ELSE unit
\* _float2int(unit)
Float2Int(unit) ==
    IF IsFloat(unit) /\ ~IsNull(unit) THEN PyInt(IntOfFloat(unit.tenths)) ELSE unit

\* The identifiers of the input frames: 12.0, 12.5, -3.5, a missing value
\* (nan), None, "ID-12a", "abc" and the int 7.
Identifiers ==
    {PyFloat(120), PyFloat(125), PyFloat(-35), NaN, None,
     PyStr(<<"I", "D", "-", "1", "2", "a">>), PyStr(<<"a", "b", "c">>), PyInt(7)}

----------------------------------------------------------------------------
(* clean_manually_annotated_parcels *)

\* labels_to_keep
labels_to_keep == {"WKT", "best_trans", "uuid", "ID"}

\* A WKT cell is known by what shapely.wkt.loads gives for it: the sequence
\* of the parts of the geometry, each part known by its is_valid.
WKTs == {<<TRUE>>, <<FALSE>>, <<FALSE, TRUE>>, <<>>}

AnnotatedCells(cols, wkt, id) ==
    [c \in cols |-> CASE c = "WKT" -> wkt
                      [] c = "ID" -> id
                      [] OTHER -> c]

AnnotatedFrames ==
    {Frame(cols, index, [i \in 1..Len(wkts) |-> AnnotatedCells(cols, wkts[i], ids[i])]) :
        <<cols, index, wkts, ids>> \in
            {q \in {labels_to_keep, labels_to_keep \cup {"note"}, labels_to_keep \ {"ID"}}
                    \X {RangeIndex(MaxRows), SameLabelIndex(MaxRows)}
                    \X SeqsUpTo(WKTs, MaxRows)
                    \X SeqsUpTo(Identifiers, MaxRows) :
                Len(q[3]) = Len(q[4])}}

InitCleanManuallyAnnotatedParcels ==
    /\ op = "clean_manually_annotated_parcels"
    /\ pc = "keep_labels"
    /\ caller_frame \in AnnotatedFrames
    /\ frame_passed = caller_frame
    /\ geodataframe_annotated = caller_frame
    /\ result = Unused
    /\ stdout = <<>>
    /\ run = Unused /\ features = Unused /\ features_passed = Unused
    /\ verbose = Unused /\ idx = Unused /\ valid_features = Unused
    /\ invalid_count = Unused /\ first_result = Unused
    /\ geodataframe = Unused /\ min_area = Unused /\ max_area = Unused

\* frame[labels]: a new frame with these columns only.
Project(frame, labels) ==
    [columns |-> labels,
     rows |-> [i \in 1..Len(frame.rows) |->
                 [index |-> frame.rows[i].index,
                  cells |-> [c \in labels |-> frame.rows[i].cells[c]]]]]

\* frame.drop([column], axis=1)
DropColumn(frame, column) == Project(frame, frame.columns \ {column})

\* frame.drop(index=labels, axis=0): every row whose label is in labels goes.
DropIndex(frame, labels) ==
    Select(frame, [i \in 1..Len(frame.rows) |-> frame.rows[i].index \notin labels])

cleanUnchanged == <<op, validVars, areaVars, frameVars>>

\* geodataframe_annotated[labels_to_keep] with a label that is no column raises.
MissingLabel ==
    /\ op = "clean_manually_annotated_parcels"
    /\ pc = "keep_labels"
    /\ ~(labels_to_keep \subseteq geodataframe_annotated.columns)
    /\ pc' = "raised"
    /\ UNCHANGED <<cleanUnchanged, geodataframe_annotated, result, stdout>>

\* geodataframe_annotated = geodataframe_annotated[labels_to_keep]
KeepLabels ==
    /\ op = "clean_manually_annotated_parcels"
    /\ pc = "keep_labels"
    /\ labels_to_keep \subseteq geodataframe_annotated.columns
    /\ geodataframe_annotated' = Project(geodataframe_annotated, labels_to_keep)
    /\ pc' = "create_geometry"
    /\ UNCHANGED <<cleanUnchanged, result, stdout>>

\* shapely.wkt.loads(s)[0] where loads(s) has no part raises.
NoFirstPart ==
    /\ op = "clean_manually_annotated_parcels"
    /\ pc = "create_geometry"
    /\ \E i \in 1..Len(geodataframe_annotated.rows) :
          geodataframe_annotated.rows[i].cells["WKT"] = <<>>
    /\ pc' = "raised"
    /\ UNCHANGED <<cleanUnchanged, geodataframe_annotated, result, stdout>>

\* geodataframe_annotated['geometry'] = WKT.apply(lambda s: shapely.wkt.loads(s)[0])
\* geodataframe_annotated = geodataframe_annotated.drop(['WKT'], axis=1)
CreateGeometry ==
    /\ op = "clean_manually_annotated_parcels"
    /\ pc = "create_geometry"
    /\ \A i \in 1..Len(geodataframe_annotated.rows) :
          geodataframe_annotated.rows[i].cells["WKT"] # <<>>
    /\ geodataframe_annotated' =
          DropColumn(SetColumn(geodataframe_annotated, "geometry",
                               [i \in 1..Len(geodataframe_annotated.rows) |->
                                  [is_valid |-> Column(geodataframe_annotated, "WKT")[i][1]]]),
                     "WKT")
    /\ pc' = "float_into_int"
    /\ UNCHANGED <<cleanUnchanged, result, stdout>>

\* geodataframe_annotated.ID = geodataframe_annotated.ID.apply(lambda t: _float2int(t))
FloatIntoInt ==
    /\ op = "clean_manually_annotated_parcels"
    /\ pc = "float_into_int"
    /\ geodataframe_annotated' =
          SetColumn(geodataframe_annotated, "ID",
                    [i \in 1..Len(geodataframe_annotated.rows) |->
                       Float2Int(Column(geodataframe_annotated, "ID")[i])])
    /\ pc' = "remove_non_digits"
    /\ UNCHANGED <<cleanUnchanged, result, stdout>>

\* geodataframe_annotated.ID = geodataframe_annotated.ID.apply(lambda t: re.sub(r"\D", "", str(t)))
RemoveNonDigitChars ==
    /\ op = "clean_manually_annotated_parcels"
    /\ pc = "remove_non_digits"
    /\ geodataframe_annotated' =
          SetColumn(geodataframe_annotated, "ID",
                    [i \in 1..Len(geodataframe_annotated.rows) |->
                       PyStr(RemoveNonDigits(StrOf(Column(geodataframe_annotated, "ID")[i])))])
    /\ pc' = "replace_empty"
    /\ UNCHANGED <<cleanUnchanged, result, stdout>>

\* What ID.replace('', np.nan) makes of a cell.
ReplaceEmpty(t) == IF t.type = "str" /\ t.chars = <<>> THEN NaN ELSE t

\* geodataframe_annotated.ID.replace('', np.nan, inplace=True)
ReplaceEmptyByNaN ==
    /\ op = "clean_manually_annotated_parcels"
    /\ pc = "replace_empty"
    /\ geodataframe_annotated' =
          SetColumn(geodataframe_annotated, "ID",
                    [i \in 1..Len(geodataframe_annotated.rows) |->
                       ReplaceEmpty(Column(geodataframe_annotated, "ID")[i])])
    /\ pc' = "remove_invalid"
    /\ UNCHANGED <<cleanUnchanged, result, stdout>>

\* geodataframe_annotated[~geodataframe_annotated.geometry.apply(lambda s: s.is_valid)]
invalid_polygons ==
    Select(geodataframe_annotated,
           [i \in 1..Len(geodataframe_annotated.rows) |->
              ~Column(geodataframe_annotated, "geometry")[i].is_valid])

\* The labels of the rows of a frame.
IndexOf(frame) == {frame.rows[i].index : i \in 1..Len(frame.rows)}

\* print("Removed {} invalid polygons.".format(len(invalid_polygons)))
\* gdf_corrected = geodataframe_annotated.drop(index=invalid_polygons.index, axis=0)
\* return gdf_corrected
RemoveInvalid ==
    /\ op = "clean_manually_annotated_parcels"
    /\ pc = "remove_invalid"
    /\ stdout' = Append(stdout, [line |-> "Removed invalid polygons",
                                 n |-> Len(invalid_polygons.rows)])
    /\ result' = DropIndex(geodataframe_annotated, IndexOf(invalid_polygons))
    /\ pc' = "done"
    /\ UNCHANGED <<cleanUnchanged, geodataframe_annotated>>

----------------------------------------------------------------------------

Init == InitGetValidShapes \/ InitFilterByArea \/ InitCleanManuallyAnnotatedParcels

Next ==
    \/ IterValid
    \/ IterInvalid
    \/ IterValueError
    \/ IterUncaught
    \/ Finish
    \/ Rerun
    \/ NoGeometryColumn
    \/ AssignArea
    \/ RemoveSmall
    \/ RemoveBig
    \/ MissingLabel
    \/ KeepLabels
    \/ NoFirstPart
    \/ CreateGeometry
    \/ FloatIntoInt
    \/ RemoveNonDigitChars
    \/ ReplaceEmptyByNaN
    \/ RemoveInvalid

Spec == Init /\ [][Next]_vars

----------------------------------------------------------------------------
(* Properties *)

Returned(f) == op = f /\ pc = "done"

\* A feature that get_valid_shapes is to keep: its shape can be built and is valid.
Constructible(feature) == feature.geometry \in {"polygon", "bowtie"}
ValidFeature(feature) == feature.geometry = "polygon"

\* C1: when get_valid_shapes returns, with verbose true or false, the number
\* of features it returns plus the invalid count it printed is the number of
\* features it was given.
C1_ReturnedPlusInvalidIsInput ==
    Returned("get_valid_shapes") => Len(result) + ReportedCount = Len(features)

C1_Witness ==
    /\ Returned("get_valid_shapes")
    /\ run = 1
    /\ ~verbose
    /\ Len(result) = 1
    /\ ReportedCount = 2
    /\ \E i \in 1..Len(features) : features[i].geometry = "unknown_type"
    /\ \E i \in 1..Len(features) : features[i].geometry = "bowtie"

\* C2: get_valid_shapes is never left by an exception, whatever is wrong
\* with a feature: the pass goes on to the end of the list.
C2_BadRecordNeverAborts ==
    op = "get_valid_shapes" => pc # "raised"

\* C3: the list get_valid_shapes returns is the input list with the features
\* whose geometry cannot be built or is not valid taken out: the same
\* records, each once, in the order of the input.
C3_ReturnsValidSubsequence ==
    Returned("get_valid_shapes") => result = SelectSeq(features, ValidFeature)

C3_Witness ==
    /\ Returned("get_valid_shapes")
    /\ Len(features) = 3
    /\ ValidFeature(features[1])
    /\ ~ValidFeature(features[2])
    /\ ValidFeature(features[3])
    /\ features[1] # features[3]
    /\ result = <<features[1], features[3]>>

\* What identifies a row of a frame given to filter_by_area: its label and its geometry.
AreaRecord(row) == <<row.index, row.cells["geometry"]>>
AreaRecords(rows) == [i \in 1..Len(rows) |-> AreaRecord(rows[i])]

StrictlyInside(a) == min_area.v < a /\ (max_area.inf \/ a < max_area.v)

\* C4: filter_by_area returns the records whose area a has
\* min_area < a < max_area, both strict, in the order of the input.
C4_StrictAreaBounds ==
    Returned("filter_by_area") =>
        AreaRecords(result.rows) =
            AreaRecords(SelectSeq(frame_passed.rows,
                                  LAMBDA row : StrictlyInside(row.cells["geometry"].area)))

C4_Witness ==
    /\ Returned("filter_by_area")
    /\ ~max_area.inf
    /\ Len(frame_passed.rows) = 3
    /\ frame_passed.rows[1].cells["geometry"].area = min_area.v
    /\ frame_passed.rows[3].cells["geometry"].area = max_area.v
    /\ Len(result.rows) = 1
    /\ AreaRecord(result.rows[1]) = AreaRecord(frame_passed.rows[2])

\* The geometry the function derives for an input row, the first part of
\* what its WKT parses to, is valid.
FirstPartValid(row) == row.cells["WKT"][1]

\* C5: clean_manually_annotated_parcels returns the input records whose
\* geometry is valid, and the removed count it prints is the number of input
\* records whose geometry is not valid: output size + removed count = input size.
C5_RemovedCountPartitions ==
    Returned("clean_manually_annotated_parcels") =>
        /\ ReportedCount = Count(frame_passed.rows, LAMBDA row : ~FirstPartValid(row))
        /\ Len(result.rows) = Count(frame_passed.rows, FirstPartValid)
        /\ Len(result.rows) + ReportedCount = Len(frame_passed.rows)

\* The identifier C6 states: digits of the string form, an integral float
\* written as an integer first.
IdentifierAsStated(id) ==
    LET written == IF IsFloat(id) /\ ~IsNaN(id) /\ id.tenths % 10 = 0
                   THEN IntStr(id.tenths \div 10)
                   ELSE StrOf(id)
        digits == SelectSeq(written, IsDigit)
    IN  IF digits = <<>> THEN NaN ELSE PyStr(digits)

\* The identifier the code gives: digits of the string form, a float that is
\* not missing cut to its integer part first.
IdentifierCutToInt(id) ==
    LET written == IF IsFloat(id) /\ ~IsNaN(id)
                   THEN IntStr(IF id.tenths < 0 THEN -((-id.tenths) \div 10)
                                                ELSE id.tenths \div 10)
                   ELSE StrOf(id)
        digits == SelectSeq(written, IsDigit)
    IN  IF digits = <<>> THEN NaN ELSE PyStr(digits)

\* Every identifier of the frame before the invalid rows go, and of the frame
\* returned, is Normal of the identifier of the input row, and none is the
\* empty string.
IdentifiersAre(Normal(_)) ==
    /\ (op = "clean_manually_annotated_parcels" /\ pc = "remove_invalid") =>
          \A i \in 1..Len(frame_passed.rows) :
              geodataframe_annotated.rows[i].cells["ID"] = Normal(frame_passed.rows[i].cells["ID"])
    /\ Returned("clean_manually_annotated_parcels") =>
          \A k \in 1..Len(result.rows) :
              /\ \E i \in 1..Len(frame_passed.rows) :
                    /\ frame_passed.rows[i].index = result.rows[k].index
                    /\ result.rows[k].cells["ID"] = Normal(frame_passed.rows[i].cells["ID"])
              /\ result.rows[k].cells["ID"] # PyStr(<<>>)

C7_Idempotent ==
    (Returned("get_valid_shapes") /\ run = 2) =>
        /\ result = first_result
        /\ ReportedCount = 0

C7_Witness ==
    /\ Returned("get_valid_shapes")
    /\ run = 2
    /\ Len(result) = 2
    /\ \E k \in 1..(Len(stdout) - 1) :
          stdout[k].line = "Found invalid shapes" /\ stdout[k].n = 1

\* C8: none of the three functions changes the collection it is given: the
\* caller's collection has the records, columns and values it had at the call.
C8_InputNotModified ==
    /\ op = "get_valid_shapes" => features = features_passed
    /\ op # "get_valid_shapes" => caller_frame = frame_passed

EmptyInput ==
    IF op = "get_valid_shapes" THEN features_passed = <<>> ELSE Len(frame_passed.rows) = 0

\* The input frame has the columns the function reads.
HasColumnsRead ==
    /\ op = "filter_by_area" => "geometry" \in frame_passed.columns
    /\ op = "clean_manually_annotated_parcels" => labels_to_keep \subseteq frame_passed.columns

EmptyResultZeroCount ==
    /\ pc # "raised"
    /\ Returned("get_valid_shapes") => (result = <<>> /\ ReportedCount = 0)
    /\ Returned("filter_by_area") => Len(result.rows) = 0
    /\ Returned("clean_manually_annotated_parcels") =>
          (Len(result.rows) = 0 /\ ReportedCount = 0)

\* C9 as stated: given an empty collection, each of the three functions
\* raises nothing, returns an empty collection and reports a count of zero.
C9_EmptyInputAsStated == EmptyInput => EmptyResultZeroCount

\* C9 as amended: given an empty collection that has the columns the function
\* reads (geometry for filter_by_area, the four labels to keep for
\* clean_manually_annotated_parcels), each of the three functions raises
\* nothing, returns an empty collection and reports a count of zero.
C9_EmptyInputWithColumns == (EmptyInput /\ HasColumnsRead) => EmptyResultZeroCount

C9_Witness ==
    /\ Returned("clean_manually_annotated_parcels")
    /\ Len(frame_passed.rows) = 0
    /\ "note" \in frame_passed.columns
    /\ result.columns = {"best_trans", "uuid", "ID", "geometry"}

AfterFloatIntoInt == op = "clean_manually_annotated_parcels" /\ pc = "remove_non_digits"

IntegralFloat(id) == IsFloat(id) /\ ~IsNaN(id) /\ id.tenths % 10 = 0

====
